---- MODULE Spec2Model ----
(***************************************************************************)
(* Model of zotero-arxiv-feishu-llm: the WeChat Work message chunker       *)
(* (wechat.py, post_papers_separately), the arXiv discovery function       *)
(* (arxiv_fetcher.py, fetch_daily_arxiv) and the calls main.py and         *)
(* test_run.py make to it.                                                 *)
(*                                                                         *)
(* Strings are modelled by their length and provenance: a string is a      *)
(* sequence of segments [k, p, n], k the kind of text, n the number of     *)
(* characters (Python len, code points), p the 1-based index of the paper  *)
(* the text renders (for a header or summary segment: the paper count the  *)
(* text states; 0 otherwise).  Concatenation is \o, slicing s[:n] is Take. *)
(***************************************************************************)
EXTENDS Integers, Sequences, FiniteSets, TLC

\* ------------------------------------------------------------------ bounds
MaxPapers == 3

\* ------------------------------------------------------- program constants
MAX_MESSAGE_LENGTH == 1000
HARD_LIMIT == 4096
HARD_CUT == 4050
HARD_CUT_2 == 4090
SOFT_CUT_MARGIN == 20
BLOCK_CUT_MARGIN == 50
PACK_ABSTRACT_LENGTH == 400
TITLE_CAP == 200
KEYWORD_COUNT_CAP == 4
KEYWORD_CAP == 150
AUTHOR_CAP == 200
LINK_TEXT_CAP == 50
SEPARATOR_LEN == 7
MARKER_LEN == 13
ELLIPSIS_LEN == 3
HEADER_FIXED_LEN == 72
CONT_HEADER_FIXED_LEN == 8
SUMMARY_FIXED_LEN == 99
SCHEME_LEN == 8
SINGLE_HEADER_FIXED_LEN == 31
NoKey == -1

\* ------------------------------------------------------------------ strings
Seg(k, p, n) == [k |-> k, p |-> p, n |-> n]

RECURSIVE StrLen(_)
StrLen(s) == IF s = <<>> THEN 0 ELSE Head(s).n + StrLen(Tail(s))

\* Python s[:n] for n >= 0
RECURSIVE Take(_, _)
Take(s, n) ==
    IF n <= 0 \/ s = <<>> THEN <<>>
    ELSE IF Head(s).n <= n
         THEN <<Head(s)>> \o Take(Tail(s), n - Head(s).n)
         ELSE <<[Head(s) EXCEPT !.n = n]>>

\* "".join(parts) for a list of strings
RECURSIVE Join(_)
Join(parts) == IF parts = <<>> THEN <<>> ELSE Head(parts) \o Join(Tail(parts))

separator == <<Seg("sep", 0, SEPARATOR_LEN)>>
marker == <<Seg("mark", 0, MARKER_LEN)>>
ellipsis == <<Seg("dots", 0, ELLIPSIS_LEN)>>

\* s.endswith(separator); no other text of the model ends with the separator
EndsWithSeparator(s) ==
    s # <<>> /\ s[Len(s)].k = "sep" /\ s[Len(s)].n = SEPARATOR_LEN

\* s[:-len(separator)]
StripSeparator(s) == Take(s, StrLen(s) - SEPARATOR_LEN)

Digits(n) == IF n < 10 THEN 1 ELSE IF n < 100 THEN 2 ELSE 3

Min(a, b) == IF a < b THEN a ELSE b
Max(a, b) == IF a > b THEN a ELSE b

RECURSIVE SumSeq(_)
SumSeq(s) == IF s = <<>> THEN 0 ELSE Head(s) + SumSeq(Tail(s))

\* len(sep.join(items)) for items given by their lengths
JoinLen(items, sepLen) ==
    IF items = <<>> THEN 0 ELSE SumSeq(items) + sepLen * (Len(items) - 1)

\* text[:cap] + "..." when len(text) > cap
Capped(n, cap) == IF n > cap THEN cap + ELLIPSIS_LEN ELSE n

\* ------------------------------------------------------------------ papers
\* A paper is given by the lengths of its fields: title (NoKey: key absent),
\* link and url (0: absent or empty; links are "https://..." without a
\* trailing slash), score (NoKey: absent, else hundredths in 0..100), authors
\* and tags (sequences of item lengths), tldr (length) with tldr_tag (number
\* of "TLDR: " occurrences in it), abstract_zh, abstract (0: absent or empty).
Paper(t, l, u, sc, au, tg, td, tt, az, ab) ==
    [title |-> t, link |-> l, url |-> u, score |-> sc, authors |-> au,
     tags |-> tg, tldr |-> td, tldr_tag |-> tt, abstract_zh |-> az,
     abstract |-> ab]

\* int(round(score * 5)) clamped to 1..5; round() is round-half-to-even
_score_to_stars(score) ==
    IF score = NoKey THEN 3
    ELSE LET q == score \div 20
             r == score % 20
             rounded == IF r < 10 THEN q
                        ELSE IF r > 10 THEN q + 1
                        ELSE IF q % 2 = 0 THEN q ELSE q + 1
         IN  Max(1, Min(5, rounded))

_short_link(url) == IF url = 0 THEN 0 ELSE url - SCHEME_LEN

\* len(_paper_md(idx, paper, max_abstract_length))
PaperMdLen(idx, paper, max_abstract_length) ==
    LET title == Capped(IF paper.title = NoKey THEN 8 ELSE paper.title, TITLE_CAP)
        link == IF paper.link > 0 THEN paper.link ELSE paper.url
        score_text == IF paper.score = NoKey THEN 3 ELSE 4
        stars == _score_to_stars(paper.score)
        keywords == Capped(JoinLen(SubSeq(paper.tags, 1,
                               Min(KEYWORD_COUNT_CAP, Len(paper.tags))), 2),
                           KEYWORD_CAP)
        au == paper.authors
        author_line ==
            IF au = <<>> THEN 0
            ELSE Capped(IF Len(au) <= 3 THEN JoinLen(au, 2)
                        ELSE JoinLen(<<au[1], au[2], 3, au[Len(au)]>>, 2),
                        AUTHOR_CAP)
        link_text == _short_link(link)
        title_line == IF link > 0
                      THEN 2 + Digits(idx) + 3 + title + 2 + link + 3
                      ELSE 2 + Digits(idx) + 2 + title + 2
        score_line == stars + 6 + score_text
                      + (IF link_text > 0
                         THEN 4 + Capped(link_text, LINK_TEXT_CAP) + 2 + link + 1
                         ELSE 0)
        tldr_text == paper.tldr - 6 * paper.tldr_tag
        lines == <<title_line, score_line>>
                 \o (IF author_line > 0 THEN <<8 + author_line>> ELSE <<>>)
                 \o (IF keywords > 0 THEN <<9 + keywords>> ELSE <<>>)
                 \o (IF paper.tldr > 0
                     THEN <<10 + Capped(tldr_text, max_abstract_length)>>
                     ELSE IF paper.abstract_zh > 0
                     THEN <<12 + Capped(paper.abstract_zh, max_abstract_length)>>
                     ELSE IF paper.abstract > 0
                     THEN <<8 + Capped(paper.abstract, max_abstract_length)>>
                     ELSE <<>>)
    IN  JoinLen(lines, 1)

_paper_md(idx, paper, max_abstract_length) ==
    <<Seg("paper", idx, PaperMdLen(idx, paper, max_abstract_length))>>

\* build_summary_message(title, total)["markdown"]["content"]
build_summary_message(t, total) ==
    <<Seg("summary", total, t + SUMMARY_FIXED_LEN + Digits(total))>>

\* the first message's header (line 271) and the continuation header (303)
FirstHeader(t, total) ==
    <<Seg("header", total, t + HEADER_FIXED_LEN + Digits(total))>>
\* (variant: a continuation message repeats the title/date header)
ContHeaderRepeatsFirst(t) == <<Seg("header", 0, t + HEADER_FIXED_LEN + 1)>>

ContHeader(t) == <<Seg("cont", 0, t + CONT_HEADER_FIXED_LEN)>>

\* closing a message: strip the trailing separator, join, soft-budget check
CloseMessage(parts) ==
    LET last == parts[Len(parts)]
        stripped == IF EndsWithSeparator(last)
                    THEN [parts EXCEPT ![Len(parts)] = StripSeparator(last)]
                    ELSE parts
        final_message == Join(stripped)
    IN  IF StrLen(final_message) > MAX_MESSAGE_LENGTH
        THEN Take(final_message, MAX_MESSAGE_LENGTH - SOFT_CUT_MARGIN) \o marker
        ELSE final_message

\* the abstract lengths tried by build_single_paper_message (line 159)
AbstractLadder == <<600, 400, 250, 150, 100>>

\* the header of build_single_paper_message (line 152)
SingleHeader(t, idx_, total_) ==
    <<Seg("single", total_, t + SINGLE_HEADER_FIXED_LEN + Digits(idx_) + Digits(total_))>>

\* build_single_paper_message(idx, total, paper, title)["markdown"]["content"]
build_single_paper_message(idx_, total_, paper, t) ==
    LET header == SingleHeader(t, idx_, total_)
        fits == {k \in 1..Len(AbstractLadder) :
                    StrLen(header \o _paper_md(idx_, paper, AbstractLadder[k])) <= HARD_LIMIT}
        markdown_content ==
            IF fits # {}
            THEN header \o _paper_md(idx_, paper,
                               AbstractLadder[CHOOSE k \in fits : \A j \in fits : k <= j])
            ELSE LET forced == header \o _paper_md(idx_, paper, AbstractLadder[Len(AbstractLadder)])
                 IN  IF StrLen(forced) > HARD_LIMIT
                     THEN Take(forced, HARD_LIMIT - SOFT_CUT_MARGIN) \o marker
                     ELSE forced
    IN  IF StrLen(markdown_content) > HARD_LIMIT
        THEN Take(markdown_content, HARD_LIMIT - SOFT_CUT_MARGIN) \o marker
        ELSE markdown_content

\* the hard check made on a message right before it is sent (lines 328-337)
HardCheck(content) ==
    LET cut == IF StrLen(content) > HARD_LIMIT
               THEN Take(content, HARD_CUT) \o marker
               ELSE content
    IN  IF StrLen(cut) > HARD_LIMIT THEN Take(cut, HARD_CUT_2) \o ellipsis ELSE cut

\* ------------------------------------------------------------------ inputs
TinyPaper == Paper(0, 0, 0, NoKey, <<>>, <<>>, 0, 0, 0, 0)
SmallPaper == Paper(40, 32, 0, 80, <<10, 10>>, <<>>, 96, 1, 0, 0)
MidPaper == Paper(60, 0, 32, 50, <<10, 10, 10, 10>>, <<8, 8, 8>>, 0, 0, 150, 900)
BigPaper == Paper(250, 60, 60, NoKey, <<60, 60, 60, 60, 60>>,
                  <<50, 50, 50, 50, 50>>, 0, 0, 0, 500)
EdgePaper == Paper(60, 0, 32, 50, <<10, 10, 10, 10>>, <<8, 8, 8>>, 0, 0, 202, 900)
PaperChoices == {TinyPaper, SmallPaper, MidPaper, EdgePaper, BigPaper}
TitleChoices == {6, 960, 4090}
DelayChoices == {0, 1}

PaperLists == UNION {[1..n -> PaperChoices] : n \in 0..MaxPapers}

\* ------------------------------------------------------------------- state
VARIABLES
    title,                  \* post_papers_separately argument (its length)
    papers,                 \* post_papers_separately argument
    delay_seconds,          \* post_papers_separately argument
    pc,                     \* position in post_papers_separately
    paper_contents,         \* rendered blocks (line 260)
    idx,                    \* index of the packing loop (line 276)
    messages,               \* closed messages (line 266)
    current_message_parts,  \* line 267
    current_length,         \* line 268
    msg_idx,                \* index of the send loop (line 325)
    log                     \* transport and sleep events, in order

wvars == <<title, papers, delay_seconds, pc, paper_contents, idx, messages,
           current_message_parts, current_length, msg_idx, log>>

total == Len(papers)

SendEvent(m, content, ok) == [ev |-> "send", msg |-> m, content |-> content, ok |-> ok]
SleepEvent(m) == [ev |-> "sleep", msg |-> m, content |-> <<>>, ok |-> TRUE]
\* line 357, "Finished sending all {n} messages": n is the number of messages
\* the line states as sent, ok that it states the whole batch as sent; the
\* line states no number of failures
ReportEvent(n) == [ev |-> "report", msg |-> n, content |-> <<>>, ok |-> TRUE]

WInit ==
    /\ title \in TitleChoices
    /\ papers \in PaperLists
    /\ delay_seconds \in DelayChoices
    /\ pc = "start"
    /\ paper_contents = <<>>
    /\ idx = 0
    /\ messages = <<>>
    /\ current_message_parts = <<>>
    /\ current_length = 0
    /\ msg_idx = 0
    /\ log = <<>>

\* (variant: returns without sending when there is no paper)
SendSummaryOkSilent ==
    /\ pc = "start" /\ total = 0
    /\ pc' = "returned"
    /\ UNCHANGED <<title, papers, delay_seconds, paper_contents, idx, messages,
                   current_message_parts, current_length, msg_idx, log>>

\* lines 252-257, post_to_wechat returns
SendSummaryOk ==
    /\ pc = "start" /\ total = 0
    /\ log' = Append(log, SendEvent(0, build_summary_message(title, 0), TRUE))
    /\ pc' = "returned"
    /\ UNCHANGED <<title, papers, delay_seconds, paper_contents, idx, messages,
                   current_message_parts, current_length, msg_idx>>

\* lines 252-255, post_to_wechat raises: nothing catches it
SendSummaryFail ==
    /\ pc = "start" /\ total = 0
    /\ log' = Append(log, SendEvent(0, build_summary_message(title, 0), FALSE))
    /\ pc' = "raised"
    /\ UNCHANGED <<title, papers, delay_seconds, paper_contents, idx, messages,
                   current_message_parts, current_length, msg_idx>>

\* lines 259-274: render every paper, start the first message with its header
Render ==
    /\ pc = "start" /\ total > 0
    /\ paper_contents' = [i \in 1..total |-> _paper_md(i, papers[i], PACK_ABSTRACT_LENGTH)]
    /\ current_message_parts' = <<FirstHeader(title, total)>>
    /\ current_length' = StrLen(FirstHeader(title, total))
    /\ messages' = <<>>
    /\ idx' = 1
    /\ pc' = "pack"
    /\ UNCHANGED <<title, papers, delay_seconds, msg_idx, log>>

\* (variant: a new message keeps the parts of the message just closed)
PackPaperKeepsParts ==
    /\ pc = "pack" /\ idx <= total
    /\ LET paper_with_separator == paper_contents[idx] \o separator
           paper_length == StrLen(paper_with_separator)
       IN  /\ messages' = IF current_length + paper_length > MAX_MESSAGE_LENGTH
                              /\ Len(current_message_parts) > 1
                           THEN Append(messages, CloseMessage(current_message_parts))
                           ELSE messages
           /\ current_message_parts' = Append(current_message_parts, paper_with_separator)
           /\ current_length' = current_length + paper_length
    /\ idx' = idx + 1
    /\ UNCHANGED <<title, papers, delay_seconds, pc, paper_contents, msg_idx, log>>

\* (variant: the overflow test looks at the block alone, not at the running
\* length of the message)
PackPaperChecksBlockOnly ==
    /\ pc = "pack" /\ idx <= total
    /\ LET paper_content == paper_contents[idx]
           paper_with_separator == paper_content \o separator
           paper_length == StrLen(paper_with_separator)
       IN  IF paper_length > MAX_MESSAGE_LENGTH
           THEN /\ messages' = IF Len(current_message_parts) > 1
                               THEN Append(messages, CloseMessage(current_message_parts))
                               ELSE messages
                /\ current_message_parts' =
                       <<Take(paper_content, MAX_MESSAGE_LENGTH - BLOCK_CUT_MARGIN) \o marker>>
                /\ current_length' = MAX_MESSAGE_LENGTH - BLOCK_CUT_MARGIN + MARKER_LEN
           ELSE /\ current_message_parts' = Append(current_message_parts, paper_with_separator)
                /\ current_length' = current_length + paper_length
                /\ messages' = messages
    /\ idx' = idx + 1
    /\ UNCHANGED <<title, papers, delay_seconds, pc, paper_contents, msg_idx, log>>

\* lines 276-309: one iteration of the packing loop
PackPaper ==
    /\ pc = "pack" /\ idx <= total
    /\ LET paper_content == paper_contents[idx]
           paper_with_separator == paper_content \o separator
           paper_length == StrLen(paper_with_separator)
       IN  IF current_length + paper_length > MAX_MESSAGE_LENGTH
           THEN /\ messages' = IF Len(current_message_parts) > 1
                               THEN Append(messages, CloseMessage(current_message_parts))
                               ELSE messages
                /\ IF paper_length > MAX_MESSAGE_LENGTH
                   THEN LET truncated ==
                                Take(paper_content, MAX_MESSAGE_LENGTH - BLOCK_CUT_MARGIN)
                                \o marker
                        IN  /\ current_message_parts' = <<truncated>>
                            /\ current_length' = StrLen(truncated)
                   ELSE /\ current_message_parts' = <<ContHeader(title), paper_with_separator>>
                        /\ current_length' = StrLen(ContHeader(title)) + paper_length
           ELSE /\ current_message_parts' = Append(current_message_parts, paper_with_separator)
                /\ current_length' = current_length + paper_length
                /\ messages' = messages
    /\ idx' = idx + 1
    /\ UNCHANGED <<title, papers, delay_seconds, pc, paper_contents, msg_idx, log>>

\* lines 311-324: close the last message, enter the send loop
CloseLast ==
    /\ pc = "pack" /\ idx > total
    /\ messages' = IF current_message_parts # <<>>
                   THEN Append(messages, CloseMessage(current_message_parts))
                   ELSE messages
    /\ msg_idx' = 1
    /\ pc' = "send"
    /\ UNCHANGED <<title, papers, delay_seconds, paper_contents, idx,
                   current_message_parts, current_length, log>>

total_messages == Len(messages)

\* lines 326-350: the send succeeds, then the inter-message delay
SendOk ==
    /\ pc = "send" /\ msg_idx <= total_messages
    /\ LET sent == Append(log, SendEvent(msg_idx, HardCheck(messages[msg_idx]), TRUE))
       IN  log' = IF msg_idx < total_messages /\ delay_seconds > 0
                  THEN Append(sent, SleepEvent(msg_idx))
                  ELSE sent
    /\ msg_idx' = msg_idx + 1
    /\ UNCHANGED <<title, papers, delay_seconds, pc, paper_contents, idx, messages,
                   current_message_parts, current_length>>

\* (variant: the error ends the send loop)
SendFailAborts ==
    /\ pc = "send" /\ msg_idx <= total_messages
    /\ log' = Append(log, SendEvent(msg_idx, HardCheck(messages[msg_idx]), FALSE))
    /\ pc' = "raised"
    /\ UNCHANGED <<title, papers, delay_seconds, paper_contents, idx, messages,
                   current_message_parts, current_length, msg_idx>>

\* lines 326-345, 351-355: post_to_wechat raises, the handler continues the loop
SendFail ==
    /\ pc = "send" /\ msg_idx <= total_messages
    /\ log' = Append(log, SendEvent(msg_idx, HardCheck(messages[msg_idx]), FALSE))
    /\ msg_idx' = msg_idx + 1
    /\ UNCHANGED <<title, papers, delay_seconds, pc, paper_contents, idx, messages,
                   current_message_parts, current_length>>

\* line 357: the loop is over, the closing line is printed, the function
\* returns
Finish ==
    /\ pc = "send" /\ msg_idx > total_messages
    /\ log' = Append(log, ReportEvent(total_messages))
    /\ pc' = "returned"
    /\ UNCHANGED <<title, papers, delay_seconds, paper_contents, idx, messages,
                   current_message_parts, current_length, msg_idx>>


\* =========================================================== arxiv_fetcher
\* ------------------------------------------------------------------ bounds
MaxResults == 2
MaxStream == 2
MaxFeed == 2

\* ------------------------------------------------------- program constants
BATCH_SIZE == 20
\* instants are counted in ticks; a calendar date is the day number
TicksPerDay == 2
\* datetime.now(timezone.utc), fixed for one call
Now == 7

DayOf(t) == t \div TicksPerDay

\* ------------------------------------------------------------------ queries
\* A query is given by its tokens, the pieces between "+", "," and white
\* space of the stripped text: <<>> is the empty or whitespace-only query.
CategoryTokens == {"cs.AI", "cs.LG"}
ColonTokens == {"cat:cs.AI", "cat:cs.LG"}

\* ":" in query
HasColon(query) == \E i \in 1..Len(query) : query[i] \in ColonTokens

\* all(_ARXIV_CATEGORY_RE.match(p) for p in parts)
AllCategories(query) == \A i \in 1..Len(query) : query[i] \in CategoryTokens

\* the parsed categories, or <<>> for None (both are falsy at the call site)
_extract_categories_from_query(query) ==
    IF query = <<>> \/ HasColon(query) THEN <<>>
    ELSE IF AllCategories(query) THEN query
    ELSE <<>>

\* [ok |-> FALSE] stands for ValueError("Empty arXiv query")
_normalize_arxiv_query_for_api(query) ==
    IF query = <<>> THEN [ok |-> FALSE, kind |-> "error", tokens |-> <<>>]
    ELSE IF ~HasColon(query) /\ AllCategories(query)
         THEN [ok |-> TRUE, kind |-> "categories", tokens |-> query]
         ELSE [ok |-> TRUE, kind |-> "literal", tokens |-> query]

\* ------------------------------------------------------------------ records
\* an arxiv.Result: base id, version of the entry id, title, published instant
Result(b, v, p) == [base |-> b, ver |-> v, title |-> <<"title", b, v>>, published |-> p]

\* entry id without the version suffix
_base_arxiv_id(result) == result.base

\* abstract and authors are carried through unchanged and left out
_result_to_dict(result) ==
    [id |-> _base_arxiv_id(result),
     title |-> result.title,
     url |-> <<result.base, result.ver>>,
     link |-> <<result.base, result.ver>>,
     published |-> IF result.published # NoKey THEN DayOf(result.published) ELSE NoKey]

\* published keys compare as the ISO strings do: "" (NoKey) below every date
RECURSIVE InsertDesc(_, _)
InsertDesc(s, p) ==
    IF s = <<>> THEN <<p>>
    ELSE IF Head(s).published >= p.published
         THEN <<Head(s)>> \o InsertDesc(Tail(s), p)
         ELSE <<p>> \o s

\* merged.sort(key=published, reverse=True): stable, newest first
RECURSIVE SortByPublishedDesc(_)
SortByPublishedDesc(s) ==
    IF s = <<>> THEN <<>>
    ELSE InsertDesc(SortByPublishedDesc(SubSeq(s, 1, Len(s) - 1)), s[Len(s)])

\* dedup.setdefault(paper["id"], paper) on an insertion-ordered dict
\* (variant: a later duplicate overwrites the stored record)
DedupSetdefaultLastWins(d, paper) ==
    IF \E i \in 1..Len(d) : d[i].id = paper.id
    THEN [i \in 1..Len(d) |-> IF d[i].id = paper.id THEN paper ELSE d[i]]
    ELSE Append(d, paper)

DedupSetdefault(d, paper) ==
    IF \E i \in 1..Len(d) : d[i].id = paper.id
    THEN d
    ELSE Append(d, paper)

\* cutoff of the api branch (lines 135-137); NoKey for None
ApiCutoff(only_new_, days_back_) ==
    IF only_new_ /\ days_back_ # NoKey /\ days_back_ >= 0
    THEN Now - days_back_ * TicksPerDay
    ELSE NoKey

\* cutoff of the feed branch (lines 82-84)
FeedCutoff(days_back_) ==
    IF days_back_ # NoKey /\ days_back_ >= 0
    THEN Now - days_back_ * TicksPerDay
    ELSE NoKey

\* cutoff and res.published and res.published < cutoff
\* (variant: a result published exactly at the cutoff counts as older)
StaleOrEqual(cutoff, result) ==
    cutoff # NoKey /\ result.published # NoKey /\ result.published <= cutoff

Stale(cutoff, result) ==
    cutoff # NoKey /\ result.published # NoKey /\ result.published < cutoff

\* a feed entry: id "oai:arXiv.org:<base>v<ver>", announce type (NoKey: field
\* missing), published_parsed and updated_parsed (NoKey: missing)
Entry(b, v, a, p, u) ==
    [base |-> b, ver |-> v, announce |-> a, published_parsed |-> p, updated_parsed |-> u]

\* entry.get("published_parsed") or entry.get("updated_parsed")
EntryTime(e) == IF e.published_parsed # NoKey THEN e.published_parsed ELSE e.updated_parsed

\* entry.id.removeprefix("oai:arXiv.org:")
EntryId(e) == <<e.base, e.ver>>

\* whether the loop of lines 87-97 keeps the entry
\* (variant: the cutoff test is left out)
KeepsEntryNoCutoff(e, only_new_, cutoff) ==
    ~(only_new_ /\ e.announce \notin {"new", "none"})

KeepsEntry(e, only_new_, cutoff) ==
    /\ ~(only_new_ /\ e.announce \notin {"new", "none"})
    /\ ~(cutoff # NoKey /\ EntryTime(e) # NoKey /\ EntryTime(e) < cutoff)

\* the ids _extract_new_ids returns for a feed without error
RECURSIVE _extract_new_ids(_, _, _)
_extract_new_ids(entries, only_new_, days_back_) ==
    IF entries = <<>> THEN <<>>
    ELSE (IF KeepsEntry(Head(entries), only_new_, FeedCutoff(days_back_))
          THEN <<EntryId(Head(entries))>> ELSE <<>>)
         \o _extract_new_ids(Tail(entries), only_new_, days_back_)

\* the metadata source: the published instant it records for a paper
CataloguePublished(cat, base) ==
    IF cat = "fresh" THEN Now - 1
    ELSE IF cat = "stale" THEN 1
    ELSE IF base % 2 = 1 THEN Now - 1 ELSE 1

\* the record the metadata lookup yields for a requested id
LookupResult(cat, id) == Result(id[1], id[2], CataloguePublished(cat, id[1]))

Reverse(s) == [i \in 1..Len(s) |-> s[Len(s) + 1 - i]]

\* what client.results yields of a stream for Search(max_results=n): the
\* library stops after n results when n > 0 and does not stop when n = 0
Available(stream, n) == IF n > 0 THEN Min(Len(stream), n) ELSE Len(stream)

\* ------------------------------------------------------------------ inputs
ResA1 == Result(1, 1, Now - 1)
ResA2 == Result(1, 2, Now - 1)
ResB == Result(2, 1, Now - 2)
ResC == Result(3, 1, 2)
ResD == Result(4, 1, NoKey)
DatedResults == {ResA1, ResA2, ResB, ResC}

\* the search source answers newest first; an undated record comes last
IsDescending(s) ==
    \A i \in 1..(Len(s) - 1) :
        /\ s[i] # s[i + 1]
        /\ s[i].published # NoKey
        /\ s[i + 1].published # NoKey => s[i].published >= s[i + 1].published

StreamChoices ==
    {s \in UNION {[1..n -> DatedResults \cup {ResD}] : n \in 0..MaxStream} :
        IsDescending(s) /\ \A i, j \in 1..Len(s) : i # j => s[i] # s[j]}

EntryA1 == Entry(1, 1, "new", Now - 1, NoKey)
EntryA2 == Entry(1, 2, "replace", NoKey, Now - 1)
EntryB == Entry(2, 1, "none", 2, NoKey)
EntryC == Entry(3, 1, "new", NoKey, NoKey)
EntryChoices == {EntryA1, EntryA2, EntryB, EntryC}

\* a feed longer than one metadata batch; its last entry is a second
\* version of its first paper
LongFeed ==
    [i \in 1..(BATCH_SIZE + 1) |->
        IF i <= BATCH_SIZE THEN Entry(i, 1, "new", Now - 1, NoKey)
        ELSE Entry(1, 2, "new", Now - 1, NoKey)]

FeedChoices ==
    UNION {[1..n -> EntryChoices] : n \in 0..MaxFeed} \cup {LongFeed}

QueryChoices ==
    {<<>>, <<"cs.AI">>, <<"cs.AI", "cs.LG">>,
     <<"cat:cs.AI", "OR", "cat:cs.LG">>, <<"transformers">>}
DaysBackChoices == {NoKey, 0, 1}
CatalogueChoices == {"fresh", "stale", "mixed"}
NoStreams == [c \in 1..2 |-> <<>>]

\* ------------------------------------------------------------------- state
VARIABLES
    source,         \* fetch_daily_arxiv argument
    arxiv_query,    \* fetch_daily_arxiv argument (its tokens)
    max_results,    \* fetch_daily_arxiv argument
    only_new,       \* fetch_daily_arxiv argument
    days_back,      \* fetch_daily_arxiv argument (NoKey: None)
    feed,           \* upstream: the feed's entries
    feed_error,     \* upstream: the feed's title reports a feed error
    catalogue,      \* upstream: the metadata source
    streams,        \* upstream: the search stream of each category, or of the literal query
    fpc,            \* position in fetch_daily_arxiv
    ids,            \* line 122
    batch_at,       \* i of the loop of line 128
    batch,          \* results the running lookup has still to yield
    results,        \* line 119; the returned list once fpc = "returned"
    dedup,          \* line 141
    cat_idx,        \* index of the loop of line 142
    pos,            \* results consumed from the running search stream
    calls,          \* network calls made, in order
    pulled          \* results pulled from search streams, in order

fvars == <<source, arxiv_query, max_results, only_new, days_back, feed, feed_error,
           catalogue, streams, fpc, ids, batch_at, batch, results, dedup, cat_idx,
           pos, calls, pulled>>

inputs == <<source, arxiv_query, max_results, only_new, days_back, feed, feed_error,
            catalogue, streams>>

categories == _extract_categories_from_query(arxiv_query)

Call(kind, arg) == [kind |-> kind, arg |-> arg]
Pull(c, result, kept) == [cat |-> c, result |-> result, kept |-> kept]

FLocalsInit ==
    /\ ids = <<>>
    /\ batch_at = 0
    /\ batch = <<>>
    /\ results = <<>>
    /\ dedup = <<>>
    /\ cat_idx = 0
    /\ pos = 0
    /\ calls = <<>>
    /\ pulled = <<>>

\* the arguments of a call and the answers of the upstream services
FInputs ==
    /\ source \in {"rss", "api", "ftp"}
    /\ max_results \in 0..MaxResults
    /\ only_new \in BOOLEAN
    /\ days_back \in DaysBackChoices
    /\ IF source = "rss"
       THEN /\ arxiv_query \in {<<>>, <<"cs.AI">>}
            /\ feed \in FeedChoices
            /\ feed_error \in IF feed = <<>> THEN BOOLEAN ELSE {FALSE}
            /\ catalogue \in CatalogueChoices
            /\ streams = NoStreams
       ELSE /\ arxiv_query \in QueryChoices
            /\ feed = <<>>
            /\ feed_error = FALSE
            /\ catalogue = "fresh"
            /\ streams \in IF source = "ftp" \/ arxiv_query = <<>>
                           THEN {NoStreams}
                           ELSE {s \in [1..2 -> StreamChoices] :
                                    \A c \in 1..2 :
                                        c > Max(1, Len(_extract_categories_from_query(arxiv_query)))
                                            => s[c] = <<>>}

FInit ==
    /\ FInputs
    /\ fpc = "start"
    /\ FLocalsInit

\* ------------------------------------------------------------- rss branch
\* line 78-80: the feed is fetched and reports an invalid query
RssFeedError ==
    /\ fpc = "start" /\ source = "rss" /\ feed_error
    /\ calls' = Append(calls, Call("feed", <<>>))
    /\ fpc' = "raised"
    /\ UNCHANGED <<inputs, ids, batch_at, batch, results, dedup, cat_idx, pos, pulled>>

\* lines 122-126: _extract_new_ids, the empty return, the truncation
RssExtract ==
    /\ fpc = "start" /\ source = "rss" /\ ~feed_error
    /\ calls' = Append(calls, Call("feed", <<>>))
    /\ LET found == _extract_new_ids(feed, only_new, days_back)
       IN  IF found = <<>>
           THEN /\ fpc' = "returned"
                /\ ids' = found
           ELSE /\ fpc' = "rss"
                /\ ids' = IF max_results > 0
                          THEN SubSeq(found, 1, Min(Len(found), max_results))
                          ELSE found
    /\ batch_at' = 0
    /\ UNCHANGED <<inputs, batch, results, dedup, cat_idx, pos, pulled>>

\* lines 128-130: the next batch of at most 20 ids is looked up; the order
\* in which the lookup answers is not fixed
RssLookup ==
    /\ fpc = "rss" /\ batch = <<>> /\ batch_at < Len(ids)
    /\ LET id_list == SubSeq(ids, batch_at + 1, Min(Len(ids), batch_at + BATCH_SIZE))
           answer == [k \in 1..Len(id_list) |-> LookupResult(catalogue, id_list[k])]
       IN  /\ calls' = Append(calls, Call("lookup", id_list))
           /\ batch' \in {answer, Reverse(answer)}
    /\ batch_at' = batch_at + BATCH_SIZE
    /\ UNCHANGED <<inputs, fpc, ids, results, dedup, cat_idx, pos, pulled>>

\* line 131: one looked-up record is appended
RssYield ==
    /\ fpc = "rss" /\ batch # <<>>
    /\ results' = Append(results, _result_to_dict(Head(batch)))
    /\ batch' = Tail(batch)
    /\ UNCHANGED <<inputs, fpc, ids, batch_at, dedup, cat_idx, pos, calls, pulled>>

\* line 132
RssReturn ==
    /\ fpc = "rss" /\ batch = <<>> /\ batch_at >= Len(ids)
    /\ fpc' = "returned"
    /\ UNCHANGED <<inputs, ids, batch_at, batch, results, dedup, cat_idx, pos, calls, pulled>>

\* ------------------------------------------------------------- api branch
\* lines 139-148: a category list; the search of the next category starts
ApiSearchCategory ==
    /\ source = "api" /\ categories # <<>>
    /\ \/ fpc = "start" /\ cat_idx' = 1
       \/ fpc = "api_next" /\ cat_idx < Len(categories) /\ cat_idx' = cat_idx + 1
    /\ calls' = Append(calls, Call("search", <<categories[cat_idx']>>))
    /\ pos' = 0
    /\ fpc' = "api_stream"
    /\ UNCHANGED <<inputs, ids, batch_at, batch, results, dedup, pulled>>

\* lines 149-153: one result of the category's stream
ApiPull ==
    /\ fpc = "api_stream" /\ pos < Available(streams[cat_idx], max_results)
    /\ LET res == streams[cat_idx][pos + 1]
       IN  IF Stale(ApiCutoff(only_new, days_back), res)
           THEN /\ pulled' = Append(pulled, Pull(cat_idx, res, FALSE))
                /\ fpc' = "api_next"
                /\ dedup' = dedup
           ELSE /\ pulled' = Append(pulled, Pull(cat_idx, res, TRUE))
                /\ fpc' = fpc
                /\ dedup' = DedupSetdefault(dedup, _result_to_dict(res))
    /\ pos' = pos + 1
    /\ UNCHANGED <<inputs, ids, batch_at, batch, results, cat_idx, calls>>

\* line 149: the category's stream is exhausted
ApiStreamEnd ==
    /\ fpc = "api_stream" /\ pos >= Available(streams[cat_idx], max_results)
    /\ fpc' = "api_next"
    /\ UNCHANGED <<inputs, ids, batch_at, batch, results, dedup, cat_idx, pos, calls, pulled>>

\* lines 155-157: merge, sort, truncate, return
ApiMerge ==
    /\ fpc = "api_next" /\ cat_idx >= Len(categories)
    /\ LET merged == SortByPublishedDesc(dedup)
       IN  results' = IF max_results > 0
                      THEN SubSeq(merged, 1, Min(Len(merged), max_results))
                      ELSE merged
    /\ fpc' = "returned"
    /\ UNCHANGED <<inputs, ids, batch_at, batch, dedup, cat_idx, pos, calls, pulled>>

\* line 159: no category list and the query is empty: ValueError
ApiInvalidQuery ==
    /\ fpc = "start" /\ source = "api" /\ categories = <<>>
    /\ ~_normalize_arxiv_query_for_api(arxiv_query).ok
    /\ fpc' = "raised"
    /\ UNCHANGED <<inputs, ids, batch_at, batch, results, dedup, cat_idx, pos, calls, pulled>>

\* lines 159-165: one search with the literal expression
ApiSearchLiteral ==
    /\ fpc = "start" /\ source = "api" /\ categories = <<>>
    /\ _normalize_arxiv_query_for_api(arxiv_query).ok
    /\ calls' = Append(calls, Call("search", _normalize_arxiv_query_for_api(arxiv_query).tokens))
    /\ cat_idx' = 1
    /\ pos' = 0
    /\ fpc' = "literal_stream"
    /\ UNCHANGED <<inputs, ids, batch_at, batch, results, dedup, pulled>>

\* lines 166-169: one result of the literal stream; a stale one ends the loop
ApiLiteralPull ==
    /\ fpc = "literal_stream" /\ pos < Available(streams[1], max_results)
    /\ LET res == streams[1][pos + 1]
       IN  IF Stale(ApiCutoff(only_new, days_back), res)
           THEN /\ pulled' = Append(pulled, Pull(1, res, FALSE))
                /\ fpc' = "returned"
                /\ results' = results
           ELSE /\ pulled' = Append(pulled, Pull(1, res, TRUE))
                /\ fpc' = fpc
                /\ results' = Append(results, _result_to_dict(res))
    /\ pos' = pos + 1
    /\ UNCHANGED <<inputs, ids, batch_at, batch, dedup, cat_idx, calls>>

\* line 170: the literal stream is exhausted
ApiLiteralReturn ==
    /\ fpc = "literal_stream" /\ pos >= Available(streams[1], max_results)
    /\ fpc' = "returned"
    /\ UNCHANGED <<inputs, ids, batch_at, batch, results, dedup, cat_idx, pos, calls, pulled>>

\* line 172
UnknownSource ==
    /\ fpc = "start" /\ source \notin {"rss", "api"}
    /\ fpc' = "raised"
    /\ UNCHANGED <<inputs, ids, batch_at, batch, results, dedup, cat_idx, pos, calls, pulled>>

\* ==================================================== main.py, test_run.py
\* the parameters of fetch_daily_arxiv (lines 101-108)
FetchParameters ==
    {"arxiv_query", "max_results", "client", "only_new", "days_back", "source"}

\* the keyword arguments of the call in main (main.py lines 129-139) and of
\* the call in run (test_run.py lines 23-29)
MainKeywords ==
    {"arxiv_query", "max_results", "only_new", "days_back", "source",
     "rss_wait_minutes", "rss_retry_minutes"}
RunKeywords == {"arxiv_query", "max_results", "only_new", "days_back", "source"}

\* Python binds a call's keywords to the parameters: a keyword that names no
\* parameter is a TypeError raised before the body runs
Accepts(keywords) == keywords \subseteq FetchParameters

VARIABLES
    caller,     \* the script that runs: "main" or "test_run" ("none": neither)
    mpc         \* its position

mvars == <<caller, mpc>>

MIdle == caller = "none" /\ mpc = "idle"

\* load_config returned a configuration (main.py line 113, test_run.py line
\* 22); run goes straight to the call
LoadConfig ==
    /\ mpc = "start"
    /\ mpc' = IF caller = "main" THEN "config" ELSE "call"
    /\ UNCHANGED <<caller, fvars>>

\* main.py lines 115-126: the Zotero library is loaded
MainLoadZotero ==
    /\ caller = "main" /\ mpc = "config"
    /\ mpc' = "call"
    /\ UNCHANGED <<caller, fvars>>

\* the arguments are evaluated (float(None) and int(None) raise TypeError),
\* then the keywords are bound to the parameters of fetch_daily_arxiv
CallFetch(keywords) ==
    /\ mpc = "call"
    /\ IF days_back = NoKey
       THEN mpc' = "conversion_error" /\ fpc' = fpc
       ELSE IF Accepts(keywords)
            THEN mpc' = "discovery" /\ fpc' = "start"
            ELSE mpc' = "type_error" /\ fpc' = fpc
    /\ UNCHANGED <<caller, inputs, ids, batch_at, batch, results, dedup, cat_idx,
                   pos, calls, pulled>>

\* main.py lines 129-139
MainCall == caller = "main" /\ CallFetch(MainKeywords)

\* test_run.py lines 23-29
RunCall == caller = "test_run" /\ CallFetch(RunKeywords)

\* fetch_daily_arxiv returned to its caller (main.py line 140)
FetchReturned ==
    /\ mpc = "discovery" /\ fpc = "returned"
    /\ mpc' = "fetched"
    /\ UNCHANGED <<caller, fvars>>

\* fetch_daily_arxiv raised: neither script catches the error
FetchRaised ==
    /\ mpc = "discovery" /\ fpc = "raised"
    /\ mpc' = "fetch_error"
    /\ UNCHANGED <<caller, fvars>>

\* ---------------------------------------------------------- specifications
vars == <<wvars, fvars, mvars>>

\* the function that is not running
WIdle ==
    /\ title = 0 /\ papers = <<>> /\ delay_seconds = 0 /\ pc = "idle"
    /\ paper_contents = <<>> /\ idx = 0 /\ messages = <<>>
    /\ current_message_parts = <<>> /\ current_length = 0 /\ msg_idx = 0
    /\ log = <<>>

FIdle ==
    /\ source = "rss" /\ arxiv_query = <<>> /\ max_results = 0 /\ only_new = FALSE
    /\ days_back = NoKey /\ feed = <<>> /\ feed_error = FALSE /\ catalogue = "fresh"
    /\ streams = NoStreams /\ fpc = "idle"
    /\ FLocalsInit

\* post_papers_separately
Init == WInit /\ FIdle /\ MIdle
Next ==
    \/ SendSummaryOk /\ UNCHANGED <<fvars, mvars>>
    \/ SendSummaryFail /\ UNCHANGED <<fvars, mvars>>
    \/ Render /\ UNCHANGED <<fvars, mvars>>
    \/ PackPaper /\ UNCHANGED <<fvars, mvars>>
    \/ CloseLast /\ UNCHANGED <<fvars, mvars>>
    \/ SendOk /\ UNCHANGED <<fvars, mvars>>
    \/ SendFail /\ UNCHANGED <<fvars, mvars>>
    \/ Finish /\ UNCHANGED <<fvars, mvars>>
Spec == Init /\ [][Next]_vars

\* fetch_daily_arxiv
InitFetch == FInit /\ WIdle /\ MIdle
NextFetch ==
    \/ RssFeedError /\ UNCHANGED <<wvars, mvars>>
    \/ RssExtract /\ UNCHANGED <<wvars, mvars>>
    \/ RssLookup /\ UNCHANGED <<wvars, mvars>>
    \/ RssYield /\ UNCHANGED <<wvars, mvars>>
    \/ RssReturn /\ UNCHANGED <<wvars, mvars>>
    \/ ApiSearchCategory /\ UNCHANGED <<wvars, mvars>>
    \/ ApiPull /\ UNCHANGED <<wvars, mvars>>
    \/ ApiStreamEnd /\ UNCHANGED <<wvars, mvars>>
    \/ ApiMerge /\ UNCHANGED <<wvars, mvars>>
    \/ ApiInvalidQuery /\ UNCHANGED <<wvars, mvars>>
    \/ ApiSearchLiteral /\ UNCHANGED <<wvars, mvars>>
    \/ ApiLiteralPull /\ UNCHANGED <<wvars, mvars>>
    \/ ApiLiteralReturn /\ UNCHANGED <<wvars, mvars>>
    \/ UnknownSource /\ UNCHANGED <<wvars, mvars>>
SpecFetch == InitFetch /\ [][NextFetch]_vars

\* main and test_run.run up to the return of fetch_daily_arxiv
InitMain ==
    /\ FInputs /\ fpc = "idle" /\ FLocalsInit
    /\ WIdle
    /\ caller \in {"main", "test_run"}
    /\ mpc = "start"
NextMain ==
    \/ LoadConfig /\ UNCHANGED wvars
    \/ MainLoadZotero /\ UNCHANGED wvars
    \/ MainCall /\ UNCHANGED wvars
    \/ RunCall /\ UNCHANGED wvars
    \/ RssFeedError /\ UNCHANGED <<wvars, mvars>>
    \/ RssExtract /\ UNCHANGED <<wvars, mvars>>
    \/ RssLookup /\ UNCHANGED <<wvars, mvars>>
    \/ RssYield /\ UNCHANGED <<wvars, mvars>>
    \/ RssReturn /\ UNCHANGED <<wvars, mvars>>
    \/ ApiSearchCategory /\ UNCHANGED <<wvars, mvars>>
    \/ ApiPull /\ UNCHANGED <<wvars, mvars>>
    \/ ApiStreamEnd /\ UNCHANGED <<wvars, mvars>>
    \/ ApiMerge /\ UNCHANGED <<wvars, mvars>>
    \/ ApiInvalidQuery /\ UNCHANGED <<wvars, mvars>>
    \/ ApiSearchLiteral /\ UNCHANGED <<wvars, mvars>>
    \/ ApiLiteralPull /\ UNCHANGED <<wvars, mvars>>
    \/ ApiLiteralReturn /\ UNCHANGED <<wvars, mvars>>
    \/ UnknownSource /\ UNCHANGED <<wvars, mvars>>
    \/ FetchReturned /\ UNCHANGED wvars
    \/ FetchRaised /\ UNCHANGED wvars
SpecMain == InitMain /\ [][NextMain]_vars

\* ------------------------------------------------- claims on the chunker
\* the send attempts made so far, in order
Sends == SelectSeq(log, LAMBDA e : e.ev = "send")

\* the indices of the papers a string carries text of, in position order
RECURSIVE PaperIdxSeq(_)
PaperIdxSeq(s) ==
    IF s = <<>> THEN <<>>
    ELSE (IF Head(s).k = "paper" /\ Head(s).n > 0 THEN <<Head(s).p>> ELSE <<>>)
         \o PaperIdxSeq(Tail(s))

PapersIn(s) == {PaperIdxSeq(s)[j] : j \in 1..Len(PaperIdxSeq(s))}

\* C1: every message content handed to the transport has at most 4096
\* characters, for every title and every paper list (the empty one included).
C1_EveryMessageWithinHardLimit ==
    \A i \in 1..Len(log) :
        log[i].ev = "send" => StrLen(log[i].content) <= HARD_LIMIT

\* C2: once post_papers_separately has returned, every paper whose rendered
\* block alone exceeds the soft budget is carried by exactly one emitted
\* message, and that message carries no other paper.
C2_OversizedPaperInExactlyOneMessage ==
    (pc = "returned" /\ total > 0) =>
        \A i \in 1..total :
            StrLen(paper_contents[i]) > MAX_MESSAGE_LENGTH =>
                /\ Cardinality({m \in 1..Len(Sends) : i \in PapersIn(Sends[m].content)}) = 1
                /\ \A m \in 1..Len(Sends) :
                       i \in PapersIn(Sends[m].content) => PapersIn(Sends[m].content) = {i}

\* C3: the papers carried by the emitted messages, read in message order and
\* within a message in position order, are in strictly increasing rank order:
\* rank order is kept and no paper has text in two messages.
C3_RankOrderNoSplit ==
    LET carried == PaperIdxSeq(Join([m \in 1..Len(Sends) |-> Sends[m].content]))
    IN  \A i, j \in 1..Len(carried) : i < j => carried[i] < carried[j]

C3_Witness ==
    /\ pc = "returned"
    /\ Len(Sends) >= 2
    /\ Len(PaperIdxSeq(Join([m \in 1..Len(Sends) |-> Sends[m].content]))) >= 3

\* C4: called with zero papers, post_papers_separately hands exactly one
\* message to the transport, the summary-only message stating the count 0;
\* nothing else is sent and the function never ends with no message sent.
C4_ZeroPapersOneSummary ==
    total = 0 =>
        /\ Len(log) <= 1
        /\ pc \in {"returned", "raised"} =>
               /\ Len(Sends) = 1
               /\ Len(Sends[1].content) = 1
               /\ Sends[1].content[1].k = "summary"
               /\ Sends[1].content[1].p = 0

C4_Witness ==
    total = 0 /\ pc = "returned" /\ Len(Sends) = 1 /\ Sends[1].ok

\* C5: for a non-empty paper list chunked into m1..mn, each of m1..mn is
\* handed to the transport exactly once, in order, whatever sends failed:
\* the function never aborts, and when it returns all n attempts were made.
C5_EachMessageAttemptedOnceInOrder ==
    total > 0 =>
        /\ pc # "raised"
        /\ pc \in {"send", "returned"} =>
               /\ Len(Sends) = msg_idx - 1
               /\ \A i \in 1..Len(Sends) :
                      Sends[i].msg = i /\ Sends[i].content = messages[i]
        /\ pc = "returned" => Len(Sends) = Len(messages)

C5_Witness ==
    /\ pc = "returned"
    /\ Len(Sends) >= 3
    /\ ~Sends[1].ok
    /\ Sends[2].ok
    /\ ~Sends[3].ok

\* C6: a transport error raised while sending a message never propagates
\* out of post_papers_separately, the zero-paper case included.
C6_TransportErrorNeverPropagates == pc # "raised"

\* C7: with delay_seconds > 0, no two send attempts are made back to back:
\* the delay is performed between them whether the earlier one succeeded
\* or failed.
C7_DelayBetweenConsecutiveSends ==
    delay_seconds > 0 =>
        \A i \in 1..(Len(log) - 1) :
            ~(log[i].ev = "send" /\ log[i + 1].ev = "send")

\* the length of the message that holds the blocks i..j: its header (the
\* title/date header for the first message, else the continuation header),
\* the blocks joined by the separator, no trailing separator
GroupLen(first, i, j) ==
    (IF first THEN StrLen(FirstHeader(title, total)) ELSE StrLen(ContHeader(title)))
    + JoinLen([k \in 1..(j - i + 1) |-> StrLen(paper_contents[i + k - 1])], SEPARATOR_LEN)

\* a block that alone exceeds the soft budget
Oversized(i) == StrLen(paper_contents[i]) > MAX_MESSAGE_LENGTH

\* blocks i..j may form one message: an oversized block on its own, or
\* blocks none of which is oversized and whose message is within the budget
Admissible(first, i, j) ==
    IF Oversized(i) THEN j = i
    ELSE /\ \A k \in i..j : ~Oversized(k)
         /\ GroupLen(first, i, j) <= MAX_MESSAGE_LENGTH

\* the least number of messages of an order-preserving grouping of the blocks
\* i..total (more than total: there is no such grouping)
RECURSIVE MinMessages(_, _)
MinMessages(first, i) ==
    IF i > total THEN 0
    ELSE LET ends == {j \in i..total : Admissible(first, i, j)}
             counts == {1 + MinMessages(FALSE, j + 1) : j \in ends}
         IN  IF ends = {} THEN total + 1
             ELSE CHOOSE n \in counts : \A m \in counts : n <= m

\* C13: once post_papers_separately has returned, the number of messages it
\* emitted equals the least number of messages of any order-preserving
\* grouping that splits no paper and keeps every message within the soft
\* budget, an oversized block being in a message of its own.
C13_MessageCountIsMinimal ==
    (pc = "returned" /\ total > 0 /\ MinMessages(TRUE, 1) <= total) =>
        Len(Sends) = MinMessages(TRUE, 1)

\* a rendered block of about 400 characters
About400(i) == StrLen(paper_contents[i]) \in 350..450

\* three blocks of about 400 characters under a header short enough for the
\* header and two blocks to share a message
ThreeBlocksOf400 ==
    /\ total = 3
    /\ pc \in {"send", "returned"}
    /\ \A i \in 1..3 : About400(i)
    /\ GroupLen(TRUE, 1, 2) <= MAX_MESSAGE_LENGTH

C15_ReportCountsSuccessesAndFailures ==
    (pc = "returned" /\ total > 0) =>
        LET report == log[Len(log)]
            succeeded == {m \in 1..Len(Sends) : Sends[m].ok}
            failed == {m \in 1..Len(Sends) : ~Sends[m].ok}
        IN  /\ report.ev = "report"
            /\ report.msg = Cardinality(succeeded)
            /\ report.ok => failed = {}

\* the text a sent message begins with
Opening(m) == Sends[m].content[1]

\* the block of paper i, with its separator, does not fit an empty message
\* (line 290)
BlockOverBudget(i) ==
    StrLen(paper_contents[i]) + SEPARATOR_LEN > MAX_MESSAGE_LENGTH

FitsSoftBudget(header, i) ==
    {k \in 1..Len(AbstractLadder) :
        StrLen(header) + PaperMdLen(i, papers[i], AbstractLadder[k]) <= MAX_MESSAGE_LENGTH}

FirstStep(steps) == AbstractLadder[CHOOSE k \in steps : \A j \in steps : k <= j]

\* C17: a paper rendered for delivery has its abstract cut at the first
\* step of the ladder 600, 400, 250, 150, 100 at which the rendered paper plus
\* header fits the soft budget, and is force-truncated only when no step fits:
\* whenever some step fits, the block packed by post_papers_separately and the
\* message of build_single_paper_message are the rendering at the first
\* fitting step.
C17_LadderAgainstSoftBudget ==
    (pc \in {"pack", "send", "returned"} /\ total > 0) =>
        \A i \in 1..total :
            /\ FitsSoftBudget(ContHeader(title), i) # {} =>
                   paper_contents[i] =
                       _paper_md(i, papers[i], FirstStep(FitsSoftBudget(ContHeader(title), i)))
            /\ FitsSoftBudget(SingleHeader(title, i, total), i) # {} =>
                   build_single_paper_message(i, total, papers[i], title) =
                       SingleHeader(title, i, total)
                       \o _paper_md(i, papers[i],
                              FirstStep(FitsSoftBudget(SingleHeader(title, i, total), i)))

\* ------------------------------------------------- claims on the discovery
\* the papers the api branch accepted from the search streams, in order
KeptPulls == SelectSeq(pulled, LAMBDA q : q.kept)

\* every paper record in the order the run first held it
Arrived ==
    IF source = "rss" THEN results
    ELSE [i \in 1..Len(KeptPulls) |-> _result_to_dict(KeptPulls[i].result)]

ArrivedIds == {Arrived[i].id : i \in 1..Len(Arrived)}

FirstArrival(id) ==
    Arrived[CHOOSE i \in 1..Len(Arrived) :
                Arrived[i].id = id /\ \A j \in 1..(i - 1) : Arrived[j].id # id]

FreshnessWindow == days_back # NoKey /\ days_back >= 0

\* C8: in every source mode the returned list holds no two papers with the
\* same normalized id, and each returned paper is the first-seen record of
\* its id.
C8_ReturnedIdsUnique ==
    fpc = "returned" =>
        /\ \A i, j \in 1..Len(results) : i # j => results[i].id # results[j].id
        /\ \A i \in 1..Len(results) : results[i] = FirstArrival(results[i].id)

\* C9: in API mode with a category list, the returned list holds each id at
\* most once, each paper with the attributes of the first stream (in category
\* order) that yielded it; it is sorted by published date, newest first, and
\* with max_results > 0 it is the max_results newest papers of the
\* deduplicated set (the whole set when max_results is 0).
C9_CategoryMergeFirstSeenSortedTruncated ==
    (fpc = "returned" /\ source = "api" /\ categories # <<>>) =>
        /\ \A i, j \in 1..Len(results) : i # j => results[i].id # results[j].id
        /\ \A i \in 1..Len(results) :
               results[i].id \in ArrivedIds /\ results[i] = FirstArrival(results[i].id)
        /\ \A i, j \in 1..Len(results) :
               i < j => results[i].published >= results[j].published
        /\ Len(results) = IF max_results > 0
                          THEN Min(max_results, Cardinality(ArrivedIds))
                          ELSE Cardinality(ArrivedIds)
        /\ \A id \in ArrivedIds \ {results[i].id : i \in 1..Len(results)} :
               \A i \in 1..Len(results) :
                   FirstArrival(id).published <= results[i].published

C9_Witness ==
    /\ fpc = "returned" /\ source = "api" /\ Len(categories) = 2
    /\ \E i, j \in 1..Len(KeptPulls) :
           /\ i < j
           /\ KeptPulls[i].cat # KeptPulls[j].cat
           /\ KeptPulls[i].result.base = KeptPulls[j].result.base
           /\ KeptPulls[i].result.ver # KeptPulls[j].result.ver
           /\ \E k \in 1..Len(results) : results[k].id = KeptPulls[i].result.base
    /\ max_results > 0
    /\ Cardinality(ArrivedIds) > max_results
    /\ results # SubSeq(dedup, 1, Len(results))

\* C10 as claimed: in rss mode with a freshness window, no returned paper
\* has a published date before the cutoff T = now - days_back.
C10_NoReturnedPaperBeforeCutoff ==
    (fpc = "returned" /\ source = "rss" /\ FreshnessWindow) =>
        \A i \in 1..Len(results) :
            results[i].published = NoKey
            \/ results[i].published >= DayOf(FeedCutoff(days_back))

\* a feed entry the freshness window lets through
PassesWindow(e) ==
    EntryTime(e) = NoKey \/ EntryTime(e) >= FeedCutoff(days_back)

\* C10 as amended: in rss mode with a freshness window, every identifier
\* handed to the metadata lookup, and every returned paper, comes from a feed
\* entry that has no published/updated timestamp or one not before T; the
\* published date of the looked-up metadata is not compared with T.
C10_LookedUpIdsPassFeedWindow ==
    (source = "rss" /\ FreshnessWindow) =>
        /\ \A k \in 1..Len(calls) :
               calls[k].kind = "lookup" =>
                   \A n \in 1..Len(calls[k].arg) :
                       \E m \in 1..Len(feed) :
                           EntryId(feed[m]) = calls[k].arg[n] /\ PassesWindow(feed[m])
        /\ \A i \in 1..Len(results) :
               \E m \in 1..Len(feed) :
                   EntryId(feed[m]) = results[i].url /\ PassesWindow(feed[m])

C10_Witness ==
    /\ fpc = "returned" /\ source = "rss" /\ FreshnessWindow
    /\ \E m \in 1..Len(feed) :
           /\ ~PassesWindow(feed[m])
           /\ \A i \in 1..Len(results) : results[i].url # EntryId(feed[m])
    /\ \E i \in 1..Len(results), m \in 1..Len(feed) :
           /\ EntryId(feed[m]) = results[i].url
           /\ EntryTime(feed[m]) = NoKey
           /\ results[i].published < DayOf(FeedCutoff(days_back))

\* the pulls made from the stream of category c, in order
PullsOf(c) == SelectSeq(pulled, LAMBDA q : q.cat = c)

\* the streams the run has searched so far
Searched == {c \in 1..2 : \E q \in 1..Len(calls) : calls[q].kind = "search" /\ c <= q}

\* C11 as claimed: in API mode with a freshness window (days_back >= 0, for
\* either value of only_new), no result older than the cutoff is accepted
\* from a stream, nothing is pulled from a stream after its first result older
\* than the cutoff, and no returned paper is older than the cutoff.
C11_WindowStopsEveryStream ==
    (source = "api" /\ FreshnessWindow) =>
        LET cutoff == Now - days_back * TicksPerDay
            Old(r) == r.published # NoKey /\ r.published < cutoff
        IN  /\ \A k \in 1..Len(pulled) : pulled[k].kept => ~Old(pulled[k].result)
            /\ \A j, k \in 1..Len(pulled) :
                   (j < k /\ pulled[j].cat = pulled[k].cat) => ~Old(pulled[j].result)
            /\ \A i \in 1..Len(results) :
                   results[i].published = NoKey \/ results[i].published >= DayOf(cutoff)

\* C11 as amended: in API mode the cutoff exists only when only_new is true
\* and days_back >= 0. Then each stream is read in order up to and including
\* its first result older than the cutoff: that result is discarded, no later
\* result of that stream is read, no returned paper is older than the cutoff,
\* and every remaining category is still searched. With only_new false (or no
\* window) every searched stream is read to its end and nothing is discarded.
C11_OnlyNewWindowStopsStream ==
    source = "api" =>
        LET windowed == only_new /\ FreshnessWindow
            cutoff == Now - days_back * TicksPerDay
            Old(r) == windowed /\ r.published # NoKey /\ r.published < cutoff
        IN  /\ \A k \in 1..Len(pulled) : pulled[k].kept = ~Old(pulled[k].result)
            /\ \A j, k \in 1..Len(pulled) :
                   (j < k /\ pulled[j].cat = pulled[k].cat) => pulled[j].kept
            /\ \A c \in 1..2 :
                   \A k \in 1..Len(PullsOf(c)) : PullsOf(c)[k].result = streams[c][k]
            /\ \A i \in 1..Len(results) :
                   windowed =>
                       \/ results[i].published = NoKey
                       \/ results[i].published >= DayOf(cutoff)
            /\ fpc = "returned" =>
                   /\ categories # <<>> =>
                          calls = [c \in 1..Len(categories) |->
                                      Call("search", <<categories[c]>>)]
                   /\ \A c \in Searched :
                          \/ Len(PullsOf(c)) = Available(streams[c], max_results)
                          \/ /\ PullsOf(c) # <<>>
                             /\ ~PullsOf(c)[Len(PullsOf(c))].kept

C11_Witness ==
    /\ fpc = "returned" /\ source = "api" /\ only_new /\ FreshnessWindow
    /\ Len(categories) = 2
    /\ Len(PullsOf(1)) = 1 /\ ~PullsOf(1)[1].kept
    /\ Available(streams[1], max_results) = 2
    /\ Len(PullsOf(2)) >= 1 /\ PullsOf(2)[1].kept
    /\ results # <<>>

\* C12: for an empty or whitespace-only query (no token), in rss mode as well
\* as in api mode, fetch_daily_arxiv issues no network call (feed fetch,
\* metadata lookup or search) and never returns a result: it fails with a
\* validation error first.
C12_EmptyQueryFailsBeforeAnyCall ==
    (arxiv_query = <<>> /\ source \in {"rss", "api"} /\ fpc # "idle") =>
        /\ calls = <<>>
        /\ fpc # "returned"

\* ------------------------------------------------------ claims on main
\* a configuration load_config accepts and whose values are usable
ValidConfiguration ==
    source \in {"rss", "api"} /\ days_back # NoKey /\ arxiv_query # <<>>

\* C18: for every valid configuration the call main makes to
\* fetch_daily_arxiv is accepted, as the call of test_run.run is: it is never
\* rejected for its arguments, and once main is past the call exactly the
\* discoverer selected by arxiv.source has run (feed fetch and lookups for
\* rss, searches for api).
C18_MainCallAccepted ==
    (caller \in {"main", "test_run"} /\ ValidConfiguration) =>
        /\ mpc # "type_error"
        /\ mpc = "fetched" =>
               \A k \in 1..Len(calls) :
                   IF source = "rss"
                   THEN calls[k].kind \in {"feed", "lookup"}
                   ELSE calls[k].kind = "search"

====
